---- MODULE Spec2Model ----
(***************************************************************************)
(* The concurrent checksum orchestration of artsum/sfv: the generate flow  *)
(* (src/cli/generate.rs) and the verify flow (src/cli/verify/mod.rs,       *)
(* src/cli/verify/task.rs).  One run is modelled: the orchestrator, the    *)
(* per-file tasks behind the worker semaphore, the bounded reporter        *)
(* channel with its single consumer (display_worker), the progress ticker  *)
(* (progress_worker) and the one-shot acknowledgement of the shutdown.     *)
(*                                                                         *)
(* Besides the runs, the options of generate (format, requested algorithm, *)
(* spelling of the directory and of the output path) and the B2SUM parser's *)
(* text round trip and file name patterns (src/manifest/b2sum.rs) are      *)
(* modelled.                                                               *)
(*                                                                         *)
(* src/cli/verify/display.rs, src/checksum.rs and src/manifest/mod.rs are  *)
(* not part of the sources at hand; the definitions that stand for them    *)
(* are marked "spec-modelled" below and follow spec.md.                    *)
(***************************************************************************)
EXTENDS Integers, Sequences, FiniteSets, TLC

\* ------------------------------------------------------------------ bounds
MaxWorkers == 2      \* max_workers ranges over 0..MaxWorkers
MaxEntries == 2      \* glob entries (generate) / manifest entries (verify)

\* ------------------------------------------------------- program constants
GenerateBufferFactor == 4   \* DisplayManager::new(options.max_workers * 4, ..)
VerifyBufferFloor == 1024   \* max(1024, ..)
VerifyBufferPerWorker == 8  \* options.max_workers * 8
VerifyBufferExtraFrom == 4  \* options.max_workers.saturating_sub(4)
VerifyBufferExtra == 4      \* .. * 4

Verbosities == {0, 1}       \* u8; the code only tests verbosity >= 1
Flows == {"generate", "verify"}

Max(a, b) == IF a >= b THEN a ELSE b
SaturatingSub(a, b) == IF a >= b THEN a - b ELSE 0

\* ------------------------------------------------------ checksum provider
\* spec-modelled (spec.md 3, 4.1): Checksum = {algorithm, mode, digest};
\* Text mode normalizes line endings before the bytes reach the digest.
Algorithms == {"SHA512", "BLAKE2B512"}
Modes == {"Binary", "Text"}

\* File contents are short byte strings: the original text and the same text
\* with its line ending converted (equal in Text mode, different in Binary).
Original == <<"a", "LF">>
Contents == {<<"a", "LF">>, <<"a", "CR", "LF">>}

\* What a path can be when a task looks at it (an entry the glob loop skips
\* keeps what the loop found it to be).
NotFile == <<"not-a-file">>      \* path.is_file() is false
IoFailure == <<"io-failure">>    \* the provider fails while reading
Unseen == <<>>                   \* no task has looked at the path yet
FileStates == {NotFile, IoFailure} \cup Contents

RECURSIVE NormalizeLineEndings(_)
NormalizeLineEndings(bytes) ==
    IF Len(bytes) = 0 THEN <<>>
    ELSE IF Len(bytes) >= 2 /\ bytes[1] = "CR" /\ bytes[2] = "LF"
         THEN <<"LF">> \o NormalizeLineEndings(SubSeq(bytes, 3, Len(bytes)))
         ELSE <<bytes[1]>> \o NormalizeLineEndings(Tail(bytes))

\* The digest is opaque and collision free: it is the pair of the algorithm and
\* the bytes that were fed to it.
Digest(algorithm, bytes) == <<algorithm, bytes>>

NoChecksum == [algorithm |-> "none", mode |-> "none", digest |-> <<>>]

ChecksumOf(bytes, algorithm, mode) ==
    [algorithm |-> algorithm,
     mode |-> mode,
     digest |-> Digest(algorithm,
                       IF mode = "Text" THEN NormalizeLineEndings(bytes) ELSE bytes)]

\* Checksum::from_file: Ok(checksum) or Err(IoFailure).
ChecksumFromFile(file, algorithm, mode) ==
    IF file \in Contents
    THEN [ok |-> TRUE, checksum |-> ChecksumOf(file, algorithm, mode)]
    ELSE [ok |-> FALSE, checksum |-> NoChecksum]

\* PartialEq of Checksum: algorithm, mode and digest all equal.
ChecksumEq(x, y) ==
    /\ x.algorithm = y.algorithm
    /\ x.mode = y.mode
    /\ x.digest = y.digest

\* ------------------------------------------------------ manifest formats
\* ManifestFormat: the default dialect (--format sfv, cli/mod.rs:42) and the
\* two algorithm-locked dialects.
Formats == {"SFV", "B2SUM", "SHA512SUM"}

\* ManifestParser::algorithm (b2sum.rs:37-39, sha512sum.rs:33-35); the default
\* dialect implies none.
ImpliedSwapped(format) ==
    CASE format = "B2SUM" -> "SHA512"
      [] format = "SHA512SUM" -> "BLAKE2B512"
      [] OTHER -> "none"

ImpliedAlgorithm(format) ==
    CASE format = "B2SUM" -> "BLAKE2B512"
      [] format = "SHA512SUM" -> "SHA512"
      [] OTHER -> "none"

\* DEFAULT_MANIFEST_FILENAME (b2sum.rs:9, sha512sum.rs:9); the default
\* dialect's file name is not in the sources at hand.
DefaultFilename(format) ==
    CASE format = "B2SUM" -> "artsum.b2sum"
      [] format = "SHA512SUM" -> "sfv.sha512"
      [] OTHER -> "artsum.sfv"

\* Option::unwrap_or over the encoding "none" for None.
UnwrapOr(opt, default) == IF opt = "none" THEN default ELSE opt

\* ------------------------------------------------------------------ paths
\* A path is the sequence of its components; "/" is the root component, "."
\* the current and ".." the parent directory.  The process runs in /w and the
\* scanned directory is /w/d, spelled in one of three ways.
Cwd == <<"/", "w">>
Dirpaths == {<<"d">>, <<"/", "w", "d">>, <<".", "..", "w", "d">>}

\* options.output: None (<<>>), or an explicit path: /w/d/m spelled relative
\* or absolute, or a file outside the scanned tree.
NoPath == <<>>
OutsideOutput == <<"o", "m">>
Outputs == {NoPath, <<"d", "m">>, <<"/", "w", "d", "m">>, OutsideOutput}

\* Names of the regular glob entries, by position.
FileNames == <<"f1", "f2", "f3", "f4">>

Last(p) == p[Len(p)]
IsAbsolute(p) == Len(p) > 0 /\ p[1] = "/"

\* The file a path denotes: absolute, without "." and "..".
RECURSIVE Normalize(_, _)
Normalize(p, acc) ==
    IF p = <<>> THEN acc
    ELSE IF Head(p) = "." THEN Normalize(Tail(p), acc)
    ELSE IF Head(p) = ".." /\ Len(acc) > 1
         THEN Normalize(Tail(p), SubSeq(acc, 1, Len(acc) - 1))
    ELSE IF Head(p) = ".." THEN Normalize(Tail(p), acc)
    ELSE Normalize(Tail(p), Append(acc, Head(p)))

Resolve(p) == Normalize(IF IsAbsolute(p) THEN p ELSE Cwd \o p, <<>>)

\* p lies inside the tree rooted at dir.
Inside(p, dir) ==
    LET rp == Resolve(p)
        rd == Resolve(dir) IN
    Len(rp) > Len(rd) /\ SubSeq(rp, 1, Len(rd)) = rd

\* The paths glob_with yields for "{dirpath}/**/*" (generate.rs:326-333) start
\* with the pattern's literal prefix as glob rebuilds it: a leading "."
\* component is not repeated in the result.
GlobPrefix(dir) == IF Len(dir) > 1 /\ Head(dir) = "." THEN Tail(dir) ELSE dir

\* Path::ends_with (generate.rs:338): child is a suffix of whole components.
EndsWith(p, child) ==
    /\ Len(child) <= Len(p)
    /\ SubSeq(p, Len(p) - Len(child) + 1, Len(p)) = child

\* pathdiff::diff_paths (generate.rs:392-393): Some(relative path) or None.
NoDiff == [some |-> FALSE, path |-> <<>>]
SomeDiff(p) == [some |-> TRUE, path |-> p]

RECURSIVE DiffLoop(_, _, _)
DiffLoop(ita, itb, comps) ==
    IF ita = <<>> /\ itb = <<>> THEN SomeDiff(comps)
    ELSE IF itb = <<>> THEN SomeDiff(comps \o ita)
    ELSE IF ita = <<>> THEN DiffLoop(<<>>, Tail(itb), Append(comps, ".."))
    ELSE LET a == Head(ita)
             b == Head(itb) IN
         IF comps = <<>> /\ a = b THEN DiffLoop(Tail(ita), Tail(itb), comps)
         ELSE IF b = "." THEN DiffLoop(Tail(ita), Tail(itb), Append(comps, a))
         ELSE IF b = ".." THEN NoDiff
         ELSE SomeDiff(comps \o [k \in 1..Len(itb) |-> ".."] \o ita)

DiffPaths(path, base) ==
    IF IsAbsolute(path) # IsAbsolute(base)
    THEN IF IsAbsolute(path) THEN SomeDiff(path) ELSE NoDiff
    ELSE DiffLoop(path, base, <<>>)

\* ------------------------------------------------------------- the state
VARIABLES
    flow,           \* "generate" or "verify"
    max_workers,    \* options.max_workers
    verbosity,      \* options.verbosity
    disabled,       \* DisplayManager.disabled
    show_progress,  \* generate: show_progress; verify: !no_progress && !debug
    manifest,       \* verify: entry -> expected Checksum
    format,         \* generate: options.format (after unwrap_or_default)
    algorithm,      \* generate: options.algorithm ("none" for None)
    dirpath,        \* generate: options.dirpath as spelled
    output,         \* generate: options.output (NoPath for None)
    manifest_entry, \* generate: the glob entry that is the manifest file (0: none)
    warnings,       \* generate: where the algorithm warning went
    manifest_exists,\* generate: the manifest destination exists on disk
    pc,             \* the orchestrator's position
    result,         \* how the run ended ("running" while it has not)
    tasks,          \* entry -> the per-file task
    nspawned,       \* entries the spawn loop has visited
    join_idx,       \* next handle the join loop awaits
    permits,        \* available permits of the worker semaphore
    counters,       \* the atomic counters
    chan,           \* the reporter channel (mpsc, bounded)
    pending,        \* the message the orchestrator is about to send
    display_task,   \* state of display_worker
    rendered,       \* messages the consumer has rendered, in order
    progress_task,  \* state of progress_worker
    last_progress,  \* progress_worker's last_progress
    progress_msg,   \* the snapshot progress_worker is about to send
    ack,            \* the one-shot acknowledgement
    artifacts,      \* generate: entries inserted into the artifacts map
    written,        \* generate: <<entries>> once the manifest file is written
    doc,            \* manifest parser: the Manifest handed to to_string
    text,           \* manifest parser: the text to_string produced
    parsed,         \* manifest parser: the Manifest parse_str read back
    filepath,       \* manifest parser: the file name handed to can_handle_filepath
    handled         \* manifest parser: can_handle_filepath's answer ("unset" before)

vars == <<flow, max_workers, verbosity, disabled, show_progress, manifest,
          format, algorithm, dirpath, output, manifest_entry, warnings,
          manifest_exists, pc, result, tasks, nspawned, join_idx, permits,
          counters, chan, pending, display_task, rendered, progress_task,
          last_progress, progress_msg, ack, artifacts, written, doc, text,
          parsed, filepath, handled>>

\* The state of one run, without the parser's.
run == <<flow, max_workers, verbosity, disabled, show_progress, manifest,
         format, algorithm, dirpath, output, manifest_entry, warnings,
         manifest_exists, pc, result, tasks, nspawned, join_idx, permits,
         counters, chan, pending, display_task, rendered, progress_task,
         last_progress, progress_msg, ack, artifacts, written>>

options == <<flow, max_workers, verbosity, disabled, show_progress, manifest,
             format, algorithm, dirpath, output, manifest_entry>>

config == <<options, warnings, doc, text, parsed, filepath, handled>>

NoMsg == [type |-> "none", id |-> 0, counts |-> <<>>]
Msg(type, id, counts) == [type |-> type, id |-> id, counts |-> counts]

NoOutcome == [status |-> "none", checksum |-> NoChecksum]
NewTask == [st |-> "unspawned", file |-> Unseen, outcome |-> NoOutcome]

ZeroCounters == [success |-> 0, error |-> 0, valid |-> 0, invalid |-> 0, missing |-> 0]

\* ChecksumAlgorithm::default() and ChecksumMode::default() (spec-modelled).
DefaultAlgorithm == "SHA512"
DefaultMode == "Binary"

\* generate hashes every file with one algorithm and one mode per run; these
\* are the ones of a run that leaves format, algorithm and mode to the defaults.
GenerateAlgorithm == DefaultAlgorithm
GenerateMode == DefaultMode

\* generate.rs:290-297: the implied algorithm of the format, else the
\* requested one, else the default.
RequestedWins ==
    UnwrapOr(algorithm, UnwrapOr(ImpliedAlgorithm(format), DefaultAlgorithm))

checksum_algorithm ==
    UnwrapOr(ImpliedAlgorithm(format), UnwrapOr(algorithm, DefaultAlgorithm))

\* generate.rs:312 (options.mode is left to its default).
checksum_mode == DefaultMode

\* generate.rs:299-310: warn! always, println! unless debug (= disabled).
AlgorithmWarnings ==
    IF algorithm # "none" /\ algorithm # checksum_algorithm
    THEN IF disabled THEN {"log"} ELSE {"log", "stdout"}
    ELSE {}

\* generate.rs:313-315: the explicit output, else the format's default file
\* name under dirpath (build_manifest_filepath).
manifest_filepath ==
    IF output # NoPath THEN output ELSE dirpath \o <<DefaultFilename(format)>>

\* The path of glob entry i as the loop sees it (generate.rs:334).
EntryName(i) == IF i = manifest_entry THEN Last(manifest_filepath) ELSE FileNames[i]
EntryPath(i) == GlobPrefix(dirpath) \o <<EntryName(i)>>

\* What a glob entry can be (generate.rs:335-337).
Directory == <<"directory">>
Symlink == <<"symlink">>
RegularFile == <<"file">>
EntryKinds == {RegularFile, Directory, Symlink}

\* The entries of a manifest as generate writes it: one algorithm, one mode.
GeneratedChecksums == {ChecksumOf(Original, GenerateAlgorithm, GenerateMode)}

\* The entries of a hand-authored manifest: any algorithm and mode per entry.
ExpectedChecksums == {ChecksumOf(Original, a, m) : a \in Algorithms, m \in Modes}

\* The state before the first statement of generate / verify; the options
\* are set by the caller, everything else is still to be constructed.
InitRun ==
    /\ pc = "start"
    /\ result = "running"
    /\ nspawned = 0
    /\ join_idx = 1
    /\ permits = 0
    /\ counters = ZeroCounters
    /\ chan = <<>>
    /\ pending = NoMsg
    /\ display_task = "none"
    /\ rendered = <<>>
    /\ progress_task = "none"
    /\ last_progress = 0
    /\ progress_msg = NoMsg
    /\ ack = "none"
    /\ artifacts = {}
    /\ written = <<>>
    /\ warnings = {}

\* No manifest is being serialized or parsed.
NoManifest == [version |-> "unset", artifacts |-> {}]
NoText == [header |-> "unset", lines |-> <<>>]

InitCodec ==
    /\ doc = NoManifest
    /\ text = NoText
    /\ parsed = NoManifest
    /\ filepath = <<>>
    /\ handled = "unset"

\* generate with the default format, no requested algorithm and an explicit
\* output outside the scanned tree; verify does not read these options.
DefaultOptions ==
    /\ format = "SFV"
    /\ algorithm = "none"
    /\ dirpath = <<"d">>
    /\ output = OutsideOutput
    /\ manifest_entry = 0

\* Any run of generate, or of verify over a manifest written by generate.
Init ==
    /\ flow \in Flows
    /\ max_workers \in 0..MaxWorkers
    /\ verbosity \in Verbosities
    /\ disabled \in BOOLEAN
    /\ show_progress \in BOOLEAN
    /\ \E n \in 0..MaxEntries :
         /\ tasks = [i \in 1..n |-> NewTask]
         /\ IF flow = "verify"
            THEN manifest \in [1..n -> GeneratedChecksums]
            ELSE manifest = [i \in 1..n |-> NoChecksum]
    /\ IF flow = "generate" THEN manifest_exists \in BOOLEAN ELSE manifest_exists = TRUE
    /\ DefaultOptions
    /\ InitCodec
    /\ InitRun

\* A verify run without reporting (no_display) over a hand-authored manifest
\* that may mix algorithms and modes.
InitMixed ==
    /\ flow = "verify"
    /\ max_workers \in 0..MaxWorkers
    /\ verbosity = 0
    /\ disabled = TRUE
    /\ show_progress = FALSE
    /\ \E n \in 0..MaxEntries :
         /\ tasks = [i \in 1..n |-> NewTask]
         /\ manifest \in [1..n -> ExpectedChecksums]
    /\ manifest_exists = TRUE
    /\ DefaultOptions
    /\ InitCodec
    /\ InitRun

\* A generate run without progress ticker and per-item success lines.  The
\* glob listing holds the manifest file exactly when that file exists and lies
\* inside the scanned tree.
InitGenerate ==
    /\ flow = "generate"
    /\ max_workers \in 0..MaxWorkers
    /\ verbosity = 0
    /\ disabled \in BOOLEAN
    /\ show_progress = FALSE
    /\ manifest_exists \in BOOLEAN
    /\ \E n \in 0..MaxEntries :
         /\ tasks = [i \in 1..n |-> NewTask]
         /\ manifest = [i \in 1..n |-> NoChecksum]
         /\ IF manifest_exists /\ Inside(manifest_filepath, dirpath)
            THEN manifest_entry \in 1..n
            ELSE manifest_entry = 0
    /\ InitCodec
    /\ InitRun

\* generate under every format and requested algorithm.
InitAlgorithm ==
    /\ format \in Formats
    /\ algorithm \in Algorithms \cup {"none"}
    /\ dirpath = <<"d">>
    /\ output = OutsideOutput
    /\ InitGenerate

\* generate under every spelling of the directory and of the output path.
InitPaths ==
    /\ format = "SFV"
    /\ algorithm = "none"
    /\ dirpath \in Dirpaths
    /\ output \in Outputs
    /\ InitGenerate

NumEntries == Len(tasks)

\* ------------------------------------------------------- reporter channel
\* generate.rs:287 and verify/mod.rs:79-82: the capacity of the mpsc channel.
Capacity ==
    IF flow = "generate"
    THEN max_workers * GenerateBufferFactor
    ELSE Max(VerifyBufferFloor,
             max_workers * VerifyBufferPerWorker
               + SaturatingSub(max_workers, VerifyBufferExtraFrom) * VerifyBufferExtra)

\* The receiver lives inside display_worker: it is dropped (and the channel
\* closed) as soon as the worker has returned or was cancelled.
RxOpen == display_task \in {"running", "aborted"}

\* tokio mpsc Sender::send: Err when the receiver is gone, otherwise it waits
\* for room.
SendNeverFails == FALSE
SendFails == ~RxOpen
SendReady == RxOpen /\ Len(chan) < Capacity

\* Rendering RunStarted in generate canonicalizes the manifest path
\* (generate.rs:130), which fails while the file does not exist.
StartRenders == flow = "verify" \/ manifest_exists

\* display_worker (generate.rs:117-152): one iteration of the receive loop.
\* An aborted worker that is in the middle of a poll keeps receiving while
\* messages are ready; display_cancelled ends it.
\* The verify consumer (display.rs) is spec-modelled after spec.md 4.4: on
\* Shutdown it stops and then signals the one-shot acknowledgement.
display_worker ==
    /\ display_task \in {"running", "aborted"}
    /\ chan # <<>>
    /\ LET msg == Head(chan) IN
       /\ chan' = Tail(chan)
       /\ CASE msg.type = "Start" /\ ~StartRenders ->
                 /\ display_task' = "failed"
                 /\ UNCHANGED <<rendered, ack>>
            [] msg.type = "Exit" ->
                 /\ display_task' = "finished"
                 /\ ack' = IF flow = "verify" THEN "sent" ELSE ack
                 /\ UNCHANGED rendered
            [] OTHER ->
                 /\ rendered' = Append(rendered, msg)
                 /\ UNCHANGED <<display_task, ack>>
    /\ UNCHANGED <<config, manifest_exists, pc, result, tasks, nspawned, join_idx,
                   permits, counters, pending, progress_task, last_progress,
                   progress_msg, artifacts, written>>

\* JoinHandle::abort (generate.rs:271-273) takes effect at the worker's next
\* yield point: the task is dropped together with the receiver.
display_cancelled ==
    /\ display_task = "aborted"
    /\ display_task' = "cancelled"
    /\ UNCHANGED <<config, manifest_exists, pc, result, tasks, nspawned, join_idx,
                   permits, counters, chan, pending, rendered, progress_task,
                   last_progress, progress_msg, ack, artifacts, written>>

\* ------------------------------------------------------------ progress ticker
\* The aggregate the ticker compares: success + error in generate
\* (generate.rs:164-167); valid + invalid + missing in verify (spec-modelled).
Aggregate(c) ==
    IF flow = "generate" THEN c.success + c.error
    ELSE c.valid + c.invalid + c.missing

Snapshot(c) ==
    IF flow = "generate" THEN <<c.success, c.error>>
    ELSE <<c.valid, c.invalid, c.missing>>

\* progress_worker (generate.rs:161-174): a tick that finds the aggregate
\* changed records it and goes on to send a snapshot.  The loads of one tick
\* are taken together.
ProgressAlways(aggregate, last) == TRUE
ProgressChanged(aggregate, last) == aggregate # last

progress_tick ==
    /\ progress_task = "ticking"
    /\ ProgressChanged(Aggregate(counters), last_progress)
    /\ last_progress' = Aggregate(counters)
    /\ progress_msg' = Msg("Progress", 0, Snapshot(counters))
    /\ progress_task' = "sending"
    /\ UNCHANGED <<config, manifest_exists, pc, result, tasks, nspawned, join_idx,
                   permits, counters, chan, pending, display_task, rendered, ack,
                   artifacts, written>>

\* progress_worker (generate.rs:169-173): tx.send(..).await? -- the worker
\* returns the error when the receiver is gone.
progress_send ==
    /\ progress_task = "sending"
    /\ \/ /\ SendFails
          /\ progress_task' = "failed"
          /\ UNCHANGED chan
       \/ /\ SendReady
          /\ chan' = Append(chan, progress_msg)
          /\ progress_task' = "ticking"
    /\ progress_msg' = NoMsg
    /\ UNCHANGED <<config, manifest_exists, pc, result, tasks, nspawned, join_idx,
                   permits, counters, pending, display_task, rendered,
                   last_progress, ack, artifacts, written>>

\* stop_progress_worker (generate.rs:225-229): abort the ticker, if any.
StoppedProgressKept(p) == p
StoppedProgress(p) == IF p \in {"ticking", "sending"} THEN "aborted" ELSE p

\* ------------------------------------------------------------ file tasks
\* Semaphore::acquire (task.rs:140-144, generate.rs:350-353): a permit is
\* handed out only while one is available.
AcquireLeaky(p) == TRUE
CanAcquire(p) == p > 0

\* Dropping _permit at the end of the task returns the permit, whatever the
\* task's outcome (RAII; task.rs:140, generate.rs:350).
DropPermitLeaky(p, status) == IF status = "Errored" THEN p ELSE p + 1
DropPermit(p, status) == p + 1

Holders == {i \in 1..NumEntries : tasks[i].st \in {"holding", "classified"}}

\* verify_checksum (task.rs:146-195): the outcome of one entry, from what the
\* path is and the expected checksum.
ClassifyRunWide(file, expected) ==
    IF file = NotFile
    THEN [status |-> "Missing", checksum |-> NoChecksum]
    ELSE LET actual == ChecksumFromFile(file, GenerateAlgorithm, GenerateMode) IN
         IF actual.ok
         THEN [status |-> IF ChecksumEq(actual.checksum, expected)
                          THEN "Valid" ELSE "Invalid",
               checksum |-> actual.checksum]
         ELSE [status |-> "Errored", checksum |-> NoChecksum]

ClassifyErrorAsInvalid(file, expected) ==
    IF file = NotFile
    THEN [status |-> "Missing", checksum |-> NoChecksum]
    ELSE LET actual == ChecksumFromFile(file, expected.algorithm, expected.mode) IN
         [status |-> IF actual.ok /\ ChecksumEq(actual.checksum, expected)
                     THEN "Valid" ELSE "Invalid",
          checksum |-> actual.checksum]

Classify(file, expected) ==
    IF file = NotFile
    THEN [status |-> "Missing", checksum |-> NoChecksum]
    ELSE LET actual == ChecksumFromFile(file, expected.algorithm, expected.mode) IN
         IF actual.ok
         THEN [status |-> IF ChecksumEq(actual.checksum, expected)
                          THEN "Valid" ELSE "Invalid",
               checksum |-> actual.checksum]
         ELSE [status |-> "Errored", checksum |-> NoChecksum]

\* verify_checksum's fetch_add (task.rs:147, 168, 171): the bucket of the
\* outcome; the Errored arm (task.rs:185-194) touches no counter.
CountVerifyLost(c, status) ==
    CASE status = "Missing" -> [c EXCEPT !.missing = @ + 1]
      [] status = "Valid" -> [c EXCEPT !.valid = @ + 1]
      [] OTHER -> c

CountVerify(c, status) ==
    CASE status = "Missing" -> [c EXCEPT !.missing = @ + 1]
      [] status = "Valid" -> [c EXCEPT !.valid = @ + 1]
      [] status = "Invalid" -> [c EXCEPT !.invalid = @ + 1]
      [] OTHER -> c

\* tokio::spawn(async move { acquire().await ..  (task.rs:140-144)
VerifyTaskAcquire(i) ==
    /\ flow = "verify"
    /\ tasks[i].st = "waiting"
    /\ CanAcquire(permits)
    /\ permits' = permits - 1
    /\ tasks' = [tasks EXCEPT ![i].st = "holding"]
    /\ UNCHANGED <<config, manifest_exists, pc, result, nspawned, join_idx,
                   counters, chan, pending, display_task, rendered, progress_task,
                   last_progress, progress_msg, ack, artifacts, written>>

\* task.rs:146-195: is_file, Checksum::from_file, comparison, counter.
VerifyTaskClassify(i) ==
    /\ flow = "verify"
    /\ tasks[i].st = "holding"
    /\ \E file \in FileStates :
         LET outcome == Classify(file, manifest[i]) IN
         /\ tasks' = [tasks EXCEPT ![i] =
                        [st |-> "classified", file |-> file, outcome |-> outcome]]
         /\ counters' = CountVerify(counters, outcome.status)
    /\ UNCHANGED <<config, manifest_exists, pc, result, nspawned, join_idx,
                   permits, chan, pending, display_task, rendered, progress_task,
                   last_progress, progress_msg, ack, artifacts, written>>

\* The task returns its result; _permit is dropped (task.rs:148-153, 183, 193).
VerifyTaskReturn(i) ==
    /\ flow = "verify"
    /\ tasks[i].st = "classified"
    /\ permits' = DropPermit(permits, tasks[i].outcome.status)
    /\ tasks' = [tasks EXCEPT ![i].st = "done"]
    /\ UNCHANGED <<config, manifest_exists, pc, result, nspawned, join_idx,
                   counters, chan, pending, display_task, rendered, progress_task,
                   last_progress, progress_msg, ack, artifacts, written>>

\* generate's task (generate.rs:348-353).
GenerateTaskAcquire(i) ==
    /\ flow = "generate"
    /\ tasks[i].st = "waiting"
    /\ CanAcquire(permits)
    /\ permits' = permits - 1
    /\ tasks' = [tasks EXCEPT ![i].st = "holding"]
    /\ UNCHANGED <<config, manifest_exists, pc, result, nspawned, join_idx,
                   counters, chan, pending, display_task, rendered, progress_task,
                   last_progress, progress_msg, ack, artifacts, written>>

\* generate.rs:355-380: Checksum::from_file, then Ok(result) or Err(error).
GenerateOutcome(file) ==
    LET checksum == ChecksumFromFile(file, checksum_algorithm, checksum_mode) IN
    IF checksum.ok
    THEN [status |-> "Computed", checksum |-> checksum.checksum]
    ELSE [status |-> "Errored", checksum |-> NoChecksum]

\* generate.rs:355-381: hash the file, return, drop _permit.
GenerateTaskRun(i) ==
    /\ flow = "generate"
    /\ tasks[i].st = "holding"
    /\ \E file \in FileStates \ {NotFile} :
         LET outcome == GenerateOutcome(file) IN
         /\ tasks' = [tasks EXCEPT ![i] =
                        [st |-> "done", file |-> file, outcome |-> outcome]]
         /\ permits' = DropPermit(permits, outcome.status)
    /\ UNCHANGED <<config, manifest_exists, pc, result, nspawned, join_idx,
                   counters, chan, pending, display_task, rendered, progress_task,
                   last_progress, progress_msg, ack, artifacts, written>>

\* A task that panics while it holds its permit (the runtime failure behind
\* JoinError, verify/mod.rs:106-108, generate.rs:388): unwinding drops _permit.
TaskPanic(i) ==
    /\ tasks[i].st = "holding"
    /\ permits' = permits + 1
    /\ tasks' = [tasks EXCEPT ![i].st = "panicked"]
    /\ UNCHANGED <<config, manifest_exists, pc, result, nspawned, join_idx,
                   counters, chan, pending, display_task, rendered, progress_task,
                   last_progress, progress_msg, ack, artifacts, written>>

\* ------------------------------------------------------ the orchestrators
\* handle.await is Err(JoinError) when the task panicked (generate.rs:388,
\* verify/mod.rs:106-108).
JoinErrorIgnored(st) == FALSE
JoinError(st) == st = "panicked"

\* return Err(..) / the ? operator / Ok(()): the function ends with r.
ReturnIgnoredAtStart(r) == /\ result' = r
                           /\ pc' = IF pc = "start" THEN "spawning" ELSE "done"
Return(r) == /\ result' = r
             /\ pc' = "done"

\* The handles the join loop has still to await: skipped glob entries have
\* no handle.
Handles == {i \in 1..NumEntries : tasks[i].st # "skipped"}
NextHandle == IF \E i \in Handles : i >= join_idx
              THEN CHOOSE i \in Handles : i >= join_idx /\ \A k \in Handles : k >= join_idx => i <= k
              ELSE 0

\* generate (generate.rs:280-323): directory check, DisplayManager::new
\* (tokio's mpsc::channel panics on a capacity of 0), report_start,
\* start_progress_worker, the semaphore.
GenerateSetup ==
    /\ flow = "generate"
    /\ pc = "start"
    /\ \/ /\ Return("Err_DirectoryNotFound")
          /\ UNCHANGED <<display_task, chan, progress_task, permits, warnings>>
       \/ /\ max_workers * GenerateBufferFactor = 0
          /\ Return("Panic_ChannelCapacity")
          /\ UNCHANGED <<display_task, chan, progress_task, permits, warnings>>
       \/ /\ max_workers * GenerateBufferFactor > 0
          /\ display_task' = IF disabled THEN "none" ELSE "running"
          /\ chan' = IF disabled THEN chan ELSE Append(chan, Msg("Start", 0, <<>>))
          /\ progress_task' = IF show_progress /\ ~disabled THEN "ticking" ELSE "none"
          /\ permits' = max_workers
          /\ warnings' = AlgorithmWarnings
          /\ pc' = "spawning"
          /\ UNCHANGED result
    /\ UNCHANGED <<options, manifest_exists, tasks, nspawned, join_idx, counters,
                   pending, rendered, last_progress, progress_msg, ack, artifacts,
                   written, doc, text, parsed, filepath, handled>>

\* generate.rs:326-384: one iteration of the glob loop.  Entries that do not
\* exist, directories, symlinks and the manifest itself are skipped; a task is
\* spawned for every other entry.
SkipEntry(kind, manifest_path, path) ==
    \/ kind # RegularFile
    \/ EndsWith(manifest_path, path)

GenerateSpawn ==
    /\ flow = "generate"
    /\ pc = "spawning"
    /\ IF nspawned < NumEntries
       THEN /\ \E kind \in EntryKinds :
                 /\ nspawned + 1 = manifest_entry => kind = RegularFile
                 /\ tasks' = [tasks EXCEPT ![nspawned + 1] =
                                IF SkipEntry(kind, manifest_filepath, EntryPath(nspawned + 1))
                                THEN [@ EXCEPT !.st = "skipped", !.file = kind]
                                ELSE [@ EXCEPT !.st = "waiting", !.file = kind]]
            /\ nspawned' = nspawned + 1
            /\ UNCHANGED pc
       ELSE /\ pc' = "joining"
            /\ UNCHANGED <<tasks, nspawned>>
    /\ UNCHANGED <<config, manifest_exists, result, join_idx, permits, counters,
                   chan, pending, display_task, rendered, progress_task,
                   last_progress, progress_msg, ack, artifacts, written>>

\* report_checksum_result (generate.rs:244-253) and report_error
\* (generate.rs:255-261): the counter first, then the message, if one is due.
GenerateCount(c, status) ==
    IF status = "Computed"
    THEN [c EXCEPT !.success = @ + 1]
    ELSE [c EXCEPT !.error = @ + 1]

GenerateReportsGated(status) == ~disabled /\ verbosity >= 1

GenerateReports(status) ==
    IF status = "Computed"
    THEN ~disabled /\ verbosity >= 1
    ELSE ~disabled

\* generate.rs:391-399: a Computed result enters the artifacts map under its
\* path relative to dirpath, when diff_paths finds one (HashMap::insert
\* replaces an entry with the same key).
Insert(map, key, checksum) ==
    {a \in map : a.key # key} \cup {[key |-> key, checksum |-> checksum]}

InsertArtifact(map, i, outcome) ==
    LET relative_filepath == DiffPaths(EntryPath(i), dirpath) IN
    IF outcome.status = "Computed" /\ relative_filepath.some
    THEN Insert(map, relative_filepath.path, outcome.checksum)
    ELSE map

\* generate.rs:387-405: await the next handle; a JoinError ends the run, an
\* outcome is counted and, if due, goes on to the channel.
GenerateJoin ==
    /\ flow = "generate"
    /\ pc = "joining"
    /\ NextHandle # 0
    /\ LET i == NextHandle
           outcome == tasks[i].outcome IN
       /\ tasks[i].st \in {"done", "panicked"}
       /\ IF JoinError(tasks[i].st)
          THEN /\ Return("Err_TaskJoinFailure")
               /\ UNCHANGED <<counters, artifacts, pending, join_idx>>
          ELSE /\ counters' = GenerateCount(counters, outcome.status)
               /\ artifacts' = InsertArtifact(artifacts, i, outcome)
               /\ IF GenerateReports(outcome.status)
                  THEN /\ pending' = Msg(IF outcome.status = "Computed"
                                         THEN "Result" ELSE "Error", i, <<>>)
                       /\ pc' = "reporting"
                       /\ UNCHANGED join_idx
                  ELSE /\ join_idx' = i + 1
                       /\ UNCHANGED <<pending, pc>>
               /\ UNCHANGED result
    /\ UNCHANGED <<config, manifest_exists, tasks, nspawned, permits, chan,
                   display_task, rendered, progress_task, last_progress,
                   progress_msg, ack, written>>

\* self.tx.send(..).await? of report_checksum_result / report_error
\* (generate.rs:250, 258) and of the verify reporter: the send waits for room
\* and fails once the receiver is gone.
ReportSend ==
    /\ pc = "reporting"
    /\ \/ /\ SendFails
          /\ Return("Err_ReporterClosed")
          /\ UNCHANGED <<chan, join_idx>>
       \/ /\ SendReady
          /\ chan' = Append(chan, pending)
          /\ join_idx' = pending.id + 1
          /\ pc' = "joining"
          /\ UNCHANGED result
    /\ pending' = NoMsg
    /\ UNCHANGED <<config, manifest_exists, tasks, nspawned, permits, counters,
                   display_task, rendered, progress_task, last_progress,
                   progress_msg, ack, artifacts, written>>

\* generate.rs:407-420: the info! line canonicalizes the manifest path when
\* the log level is enabled (fails while the file does not exist), then the
\* manifest is serialized and written.
GenerateWrite ==
    /\ flow = "generate"
    /\ pc = "joining"
    /\ NextHandle = 0
    /\ \/ /\ ~manifest_exists
          /\ Return("Err_ManifestPath")
          /\ UNCHANGED <<written, manifest_exists>>
       \/ /\ Return("Err_ManifestWrite")
          /\ UNCHANGED <<written, manifest_exists>>
       \/ /\ written' = <<artifacts>>
          /\ manifest_exists' = TRUE
          /\ pc' = "exiting"
          /\ UNCHANGED result
    /\ UNCHANGED <<config, tasks, nspawned, join_idx, permits, counters, chan,
                   pending, display_task, rendered, progress_task, last_progress,
                   progress_msg, ack, artifacts>>

\* report_exit (generate.rs:263-277): send Exit, abort the display task,
\* signal the acknowledgement.
report_exit ==
    /\ flow = "generate"
    /\ pc = "exiting"
    /\ \/ /\ ~disabled
          /\ SendFails
          /\ Return("Err_ReporterClosed")
          /\ UNCHANGED <<chan, display_task, ack>>
       \/ /\ ~disabled
          /\ SendReady
          /\ chan' = Append(chan, Msg("Exit", 0, <<>>))
          /\ display_task' = IF display_task = "running" THEN "aborted" ELSE display_task
          /\ ack' = "sent"
          /\ pc' = "stopping"
          /\ UNCHANGED result
       \/ /\ disabled
          /\ ack' = "sent"
          /\ pc' = "stopping"
          /\ UNCHANGED <<chan, display_task, result>>
    /\ UNCHANGED <<config, manifest_exists, tasks, nspawned, join_idx, permits,
                   counters, pending, rendered, progress_task, last_progress,
                   progress_msg, artifacts, written>>

\* generate.rs:424 -> stop_progress_worker (generate.rs:225-229).
GenerateStopProgress ==
    /\ flow = "generate"
    /\ pc = "stopping"
    /\ progress_task' = StoppedProgress(progress_task)
    /\ progress_msg' = NoMsg
    /\ pc' = "syncing"
    /\ UNCHANGED <<config, manifest_exists, result, tasks, nspawned, join_idx,
                   permits, counters, chan, pending, display_task, rendered,
                   last_progress, ack, artifacts, written>>

\* generate.rs:425-427: sync_rx.await?, then Ok(()).
GenerateSync ==
    /\ flow = "generate"
    /\ pc = "syncing"
    /\ ack = "sent"
    /\ ack' = "received"
    /\ Return("Ok")
    /\ UNCHANGED <<config, manifest_exists, tasks, nspawned, join_idx, permits,
                   counters, chan, pending, display_task, rendered, progress_task,
                   last_progress, progress_msg, artifacts, written>>

\* verify (verify/mod.rs:50-94): directory check, manifest resolution, parse,
\* VerifyTaskBuilder::new (task.rs:113-125), then the reporter is started
\* (DisplayManager::new, report_start, start_progress_worker: spec-modelled).
VerifySetup ==
    /\ flow = "verify"
    /\ pc = "start"
    /\ \/ /\ \E e \in {"Err_DirectoryNotFound", "Err_ManifestNotFound",
                       "Err_ManifestParse"} : Return(e)
          /\ UNCHANGED <<display_task, chan, progress_task, permits>>
       \/ /\ display_task' = IF disabled THEN "none" ELSE "running"
          /\ chan' = IF disabled THEN chan ELSE Append(chan, Msg("Start", 0, <<>>))
          /\ progress_task' = IF show_progress /\ ~disabled THEN "ticking" ELSE "none"
          /\ permits' = max_workers
          /\ pc' = "spawning"
          /\ UNCHANGED result
    /\ UNCHANGED <<config, manifest_exists, tasks, nspawned, join_idx, counters,
                   pending, rendered, last_progress, progress_msg, ack, artifacts,
                   written>>

\* verify/mod.rs:97-103: one task per manifest entry (task.rs:127-139, 196).
VerifySpawn ==
    /\ flow = "verify"
    /\ pc = "spawning"
    /\ IF nspawned < NumEntries
       THEN /\ tasks' = [tasks EXCEPT ![nspawned + 1].st = "waiting"]
            /\ nspawned' = nspawned + 1
            /\ UNCHANGED pc
       ELSE /\ pc' = "joining"
            /\ UNCHANGED <<tasks, nspawned>>
    /\ UNCHANGED <<config, manifest_exists, result, join_idx, permits, counters,
                   chan, pending, display_task, rendered, progress_task,
                   last_progress, progress_msg, ack, artifacts, written>>

\* report_task_result / report_task_error of the verify reporter
\* (spec-modelled, spec.md 4.4): success lines are gated by the verbosity,
\* everything else is reported unless reporting is disabled.
VerifyReports(status) ==
    /\ ~disabled
    /\ status = "Valid" => verbosity >= 1

\* verify/mod.rs:105-113: await the next task; a JoinError ends the run
\* (TaskJoinFailure), an outcome goes to the reporter.
VerifyJoin ==
    /\ flow = "verify"
    /\ pc = "joining"
    /\ join_idx <= NumEntries
    /\ LET i == join_idx
           outcome == tasks[i].outcome IN
       /\ tasks[i].st \in {"done", "panicked"}
       /\ IF JoinError(tasks[i].st)
          THEN /\ Return("Err_TaskJoinFailure")
               /\ UNCHANGED <<pending, join_idx>>
          ELSE /\ IF VerifyReports(outcome.status)
                  THEN /\ pending' = Msg(IF outcome.status = "Errored"
                                         THEN "Error" ELSE "Result", i, <<>>)
                       /\ pc' = "reporting"
                       /\ UNCHANGED join_idx
                  ELSE /\ join_idx' = i + 1
                       /\ UNCHANGED <<pending, pc>>
               /\ UNCHANGED result
    /\ UNCHANGED <<config, manifest_exists, tasks, nspawned, permits, counters,
                   chan, display_task, rendered, progress_task, last_progress,
                   progress_msg, ack, artifacts, written>>

\* verify/mod.rs:115: report_progress(true), the forced final snapshot
\* (spec-modelled: enqueued unless reporting is disabled).
VerifyFinalProgress ==
    /\ flow = "verify"
    /\ pc = "joining"
    /\ join_idx > NumEntries
    /\ \/ /\ disabled
          /\ pc' = "stopping"
          /\ UNCHANGED <<chan, result>>
       \/ /\ ~disabled
          /\ SendFails
          /\ Return("Err_ReporterClosed")
          /\ UNCHANGED chan
       \/ /\ ~disabled
          /\ SendReady
          /\ chan' = Append(chan, Msg("Progress", 0, Snapshot(counters)))
          /\ pc' = "stopping"
          /\ UNCHANGED result
    /\ UNCHANGED <<config, manifest_exists, tasks, nspawned, join_idx, permits,
                   counters, pending, display_task, rendered, progress_task,
                   last_progress, progress_msg, ack, artifacts, written>>

\* verify/mod.rs:116: stop_progress_worker.
VerifyStopProgress ==
    /\ flow = "verify"
    /\ pc = "stopping"
    /\ progress_task' = StoppedProgress(progress_task)
    /\ progress_msg' = NoMsg
    /\ pc' = "exiting"
    /\ UNCHANGED <<config, manifest_exists, result, tasks, nspawned, join_idx,
                   permits, counters, chan, pending, display_task, rendered,
                   last_progress, ack, artifacts, written>>

\* verify/mod.rs:118-120: sleep, then report_exit(sync_tx) (spec-modelled:
\* Shutdown is enqueued and the consumer acknowledges; without a consumer the
\* acknowledgement is signalled at once).
VerifyReportExit ==
    /\ flow = "verify"
    /\ pc = "exiting"
    /\ \/ /\ disabled
          /\ ack' = "sent"
          /\ pc' = "syncing"
          /\ UNCHANGED <<chan, result>>
       \/ /\ ~disabled
          /\ SendFails
          /\ Return("Err_ReporterClosed")
          /\ UNCHANGED <<chan, ack>>
       \/ /\ ~disabled
          /\ SendReady
          /\ chan' = Append(chan, Msg("Exit", 0, <<>>))
          /\ pc' = "syncing"
          /\ UNCHANGED <<ack, result>>
    /\ UNCHANGED <<config, manifest_exists, tasks, nspawned, join_idx, permits,
                   counters, pending, display_task, rendered, progress_task,
                   last_progress, progress_msg, artifacts, written>>

\* verify/mod.rs:121: sync_rx.await.unwrap().
VerifySync ==
    /\ flow = "verify"
    /\ pc = "syncing"
    /\ ack = "sent"
    /\ ack' = "received"
    /\ pc' = "deciding"
    /\ UNCHANGED <<config, manifest_exists, result, tasks, nspawned, join_idx,
                   permits, counters, chan, pending, display_task, rendered,
                   progress_task, last_progress, progress_msg, artifacts, written>>

\* verify/mod.rs:123-127: the exit status.
ExitStatusAnyFailure(c) == IF c.invalid + c.missing > 0 THEN "Exit1" ELSE "Ok"
ExitStatus(c) == IF c.invalid > 0 THEN "Exit1" ELSE "Ok"

VerifyDecide ==
    /\ flow = "verify"
    /\ pc = "deciding"
    /\ Return(ExitStatus(counters))
    /\ UNCHANGED <<config, manifest_exists, tasks, nspawned, join_idx, permits,
                   counters, chan, pending, display_task, rendered, progress_task,
                   last_progress, progress_msg, ack, artifacts, written>>

\* ---------------------------------------------------------- specification
Next ==
    \/ GenerateSetup
    \/ GenerateSpawn
    \/ GenerateJoin
    \/ GenerateWrite
    \/ report_exit
    \/ GenerateStopProgress
    \/ GenerateSync
    \/ VerifySetup
    \/ VerifySpawn
    \/ VerifyJoin
    \/ VerifyFinalProgress
    \/ VerifyStopProgress
    \/ VerifyReportExit
    \/ VerifySync
    \/ VerifyDecide
    \/ ReportSend
    \/ display_worker
    \/ display_cancelled
    \/ progress_tick
    \/ progress_send
    \/ \E i \in DOMAIN tasks : VerifyTaskAcquire(i)
    \/ \E i \in DOMAIN tasks : VerifyTaskClassify(i)
    \/ \E i \in DOMAIN tasks : VerifyTaskReturn(i)
    \/ \E i \in DOMAIN tasks : GenerateTaskAcquire(i)
    \/ \E i \in DOMAIN tasks : GenerateTaskRun(i)
    \/ \E i \in DOMAIN tasks : TaskPanic(i)

Spec == Init /\ [][Next]_vars

\* The verify flow without its reporter.
NextMixed ==
    \/ VerifySetup
    \/ VerifySpawn
    \/ VerifyJoin
    \/ VerifyFinalProgress
    \/ VerifyStopProgress
    \/ VerifyReportExit
    \/ VerifySync
    \/ VerifyDecide
    \/ \E i \in DOMAIN tasks : VerifyTaskAcquire(i)
    \/ \E i \in DOMAIN tasks : VerifyTaskClassify(i)
    \/ \E i \in DOMAIN tasks : VerifyTaskReturn(i)
    \/ \E i \in DOMAIN tasks : TaskPanic(i)

SpecMixed == InitMixed /\ [][NextMixed]_vars

\* The generate flow without the progress ticker.
NextGenerate ==
    \/ GenerateSetup
    \/ GenerateSpawn
    \/ GenerateJoin
    \/ GenerateWrite
    \/ report_exit
    \/ GenerateStopProgress
    \/ GenerateSync
    \/ ReportSend
    \/ display_worker
    \/ display_cancelled
    \/ \E i \in DOMAIN tasks : GenerateTaskAcquire(i)
    \/ \E i \in DOMAIN tasks : GenerateTaskRun(i)
    \/ \E i \in DOMAIN tasks : TaskPanic(i)

SpecAlgorithm == InitAlgorithm /\ [][NextGenerate]_vars

SpecPaths == InitPaths /\ [][NextGenerate]_vars

\* The runs with at least one worker, under the scheduling the runtime
\* guarantees: the orchestrator, the reporter's consumer and every spawned
\* task are tokio tasks that are polled again whenever they can proceed; a
\* cancelled consumer is dropped at its next yield point.  The ticker needs no
\* fairness, and a panic is never forced.
InitLive ==
    /\ Init
    /\ max_workers >= 1

Orchestrator ==
    \/ GenerateSetup
    \/ GenerateSpawn
    \/ GenerateJoin
    \/ GenerateWrite
    \/ report_exit
    \/ GenerateStopProgress
    \/ GenerateSync
    \/ VerifySetup
    \/ VerifySpawn
    \/ VerifyJoin
    \/ VerifyFinalProgress
    \/ VerifyStopProgress
    \/ VerifyReportExit
    \/ VerifySync
    \/ VerifyDecide
    \/ ReportSend

FileTask(i) ==
    /\ i \in DOMAIN tasks
    /\ \/ VerifyTaskAcquire(i)
       \/ VerifyTaskClassify(i)
       \/ VerifyTaskReturn(i)
       \/ GenerateTaskAcquire(i)
       \/ GenerateTaskRun(i)

Fairness ==
    /\ WF_vars(Orchestrator)
    /\ WF_vars(display_worker)
    /\ WF_vars(display_cancelled)
    /\ \A i \in 1..MaxEntries : WF_vars(FileTask(i))

SpecLive == InitLive /\ [][Next]_vars /\ Fairness

\* -------------------------------------------------------- manifest parser
\* spec-modelled (spec.md 3, 4.2, 6): standard_to_string and
\* standard_from_str are not in the sources at hand.  The text is an optional
\* version header and one line per artifact: the hex digest, the mode marker
\* ("*" binary, " " text) and the path.  The algorithm is not part of the
\* text; the parser supplies its own.
Versions == {"none", "1"}

HexEncode(digest) == <<"hex", digest>>
HexDecode(hex) == hex[2]

ModeMarker(mode) == IF mode = "Binary" THEN "*" ELSE " "
MarkerMode(marker) == IF marker = "*" THEN "Binary" ELSE "Text"

Line(a) ==
    [digest |-> HexEncode(a.checksum.digest),
     marker |-> ModeMarker(a.checksum.mode),
     path |-> a.key]

\* The artifacts are a HashMap: the lines come in any order.
Orderings(S) ==
    {o \in [1..Cardinality(S) -> S] :
        \A i, j \in 1..Cardinality(S) : i # j => o[i] # o[j]}

standard_to_string(m, order) ==
    [header |-> m.version, lines |-> [i \in 1..Len(order) |-> Line(order[i])]]

RECURSIVE ParseLines(_, _, _)
ParseLines(lines, alg, map) ==
    IF lines = <<>> THEN map
    ELSE ParseLines(Tail(lines), alg,
                    Insert(map, Head(lines).path,
                           [algorithm |-> alg,
                            mode |-> MarkerMode(Head(lines).marker),
                            digest |-> HexDecode(Head(lines).digest)]))

standard_from_str(data, alg) ==
    [version |-> data.header, artifacts |-> ParseLines(data.lines, alg, {})]

\* The manifests handed to the parser: up to MaxEntries artifacts, each with
\* any algorithm and mode.
CodecKeys == {<<FileNames[i]>> : i \in 1..MaxEntries}
CodecChecksums == {ChecksumOf(c, a, m) : c \in Contents, a \in Algorithms, m \in Modes}
ArtifactMaps ==
    UNION {{{[key |-> k, checksum |-> f[k]] : k \in K} : f \in [K -> CodecChecksums]} :
           K \in SUBSET CodecKeys}
Manifests == {[version |-> v, artifacts |-> a] : v \in Versions, a \in ArtifactMaps}

InitRoundTrip ==
    /\ flow = "verify"
    /\ max_workers = 0
    /\ verbosity = 0
    /\ disabled = TRUE
    /\ show_progress = FALSE
    /\ tasks = <<>>
    /\ manifest = <<>>
    /\ manifest_exists = TRUE
    /\ format = "B2SUM"
    /\ algorithm = "none"
    /\ dirpath = <<"d">>
    /\ output = OutsideOutput
    /\ manifest_entry = 0
    /\ InitRun
    /\ doc \in Manifests
    /\ text = NoText
    /\ parsed = NoManifest
    /\ filepath = <<>>
    /\ handled = "unset"

\* B2SUMParser::to_string (b2sum.rs:50-52).
to_string ==
    /\ text = NoText
    /\ \E order \in Orderings(doc.artifacts) :
         text' = standard_to_string(doc, order)
    /\ UNCHANGED <<run, doc, parsed, filepath, handled>>

\* B2SUMParser::parse_str (b2sum.rs:46-48); parse (b2sum.rs:41-44) reads the
\* file into a string and calls it.
parse_str ==
    /\ text # NoText
    /\ parsed = NoManifest
    /\ parsed' = standard_from_str(text, ImpliedAlgorithm(format))
    /\ UNCHANGED <<run, doc, text, filepath, handled>>

NextRoundTrip ==
    \/ to_string
    \/ parse_str

SpecRoundTrip == InitRoundTrip /\ [][NextRoundTrip]_vars

\* ------------------------------------------------- file name detection
\* A file name is the sequence of its characters.  The names handed to
\* can_handle_filepath are built as the tests of b2sum.rs build them
\* (b2sum.rs:93-106): a base name whose extension is replaced by ext.
ExtensionMaxLen == 4
ExtensionChars == {"b", "2", "s", "u", "m", "B", "x"}
Extensions ==
    UNION {[1..n -> ExtensionChars] : n \in 1..ExtensionMaxLen}
        \cup {<<"b", "2", "s", "u", "m">>}
Stems == {<<"a">>, <<"a", "r", "t", "s", "u", "m">>, <<"s", "f", "v">>,
          <<"x", ".", "b", "2">>}

\* PathBuf::set_extension on a name whose stem is stem.
SetExtension(stem, ext) == stem \o <<".">> \o ext

\* Path::extension: what follows the last "." of the file name; none when
\* the name has no "." or only a leading one.
LastDot(name) ==
    IF \E k \in 1..Len(name) : name[k] = "."
    THEN CHOOSE k \in 1..Len(name) :
             name[k] = "." /\ \A j \in (k + 1)..Len(name) : name[j] # "."
    ELSE 0
NoExtension == <<"none">>
Extension(name) ==
    IF LastDot(name) <= 1 THEN NoExtension
    ELSE SubSeq(name, LastDot(name) + 1, Len(name))

\* The anchored regular expressions of filename_patterns: "^literal$", or
\* "^.*literal$" where "." matches every character but the line feed.
Exactly(literal) == [any |-> FALSE, literal |-> literal]
AnyThen(literal) == [any |-> TRUE, literal |-> literal]

IsMatch(pattern, name) ==
    IF pattern.any
    THEN /\ Len(name) >= Len(pattern.literal)
         /\ SubSeq(name, Len(name) - Len(pattern.literal) + 1, Len(name))
               = pattern.literal
         /\ \A k \in 1..(Len(name) - Len(pattern.literal)) : name[k] # "LF"
    ELSE name = pattern.literal

\* B2SUMParser::default (b2sum.rs:15-25), SHA512SUMParser::default
\* (sha512sum.rs:15-21).
FilenamePatternsDefaultOnly(fmt) ==
    CASE fmt = "B2SUM" ->
           <<Exactly(<<"a", "r", "t", "s", "u", "m", ".", "b", "2", "s", "u", "m">>)>>
      [] fmt = "SHA512SUM" ->
           <<Exactly(<<"s", "f", "v", ".", "s", "h", "a", "5", "1", "2">>)>>
      [] OTHER -> <<>>

FilenamePatterns(fmt) ==
    CASE fmt = "B2SUM" ->
           <<Exactly(<<"a", "r", "t", "s", "u", "m", ".", "b", "2", "s", "u", "m">>),
             AnyThen(<<".", "b", "2", "s", "u", "m">>),
             AnyThen(<<".", "b", "2">>)>>
      [] fmt = "SHA512SUM" ->
           <<Exactly(<<"s", "f", "v", ".", "s", "h", "a", "5", "1", "2">>)>>
      [] OTHER -> <<>>

\* ManifestParser::can_handle_filepath (spec-modelled, spec.md 4.2): the file
\* name matches one of the parser's filename patterns.
CanHandleFilepath(fmt, name) ==
    \E k \in 1..Len(FilenamePatterns(fmt)) : IsMatch(FilenamePatterns(fmt)[k], name)

InitDetect ==
    /\ flow = "verify"
    /\ max_workers = 0
    /\ verbosity = 0
    /\ disabled = TRUE
    /\ show_progress = FALSE
    /\ tasks = <<>>
    /\ manifest = <<>>
    /\ manifest_exists = TRUE
    /\ format \in {"B2SUM", "SHA512SUM"}
    /\ algorithm = "none"
    /\ dirpath = <<"d">>
    /\ output = OutsideOutput
    /\ manifest_entry = 0
    /\ InitRun
    /\ doc = NoManifest
    /\ text = NoText
    /\ parsed = NoManifest
    /\ \E stem \in Stems, ext \in Extensions : filepath = SetExtension(stem, ext)
    /\ handled = "unset"

can_handle_filepath ==
    /\ handled = "unset"
    /\ handled' = IF CanHandleFilepath(format, filepath) THEN "true" ELSE "false"
    /\ UNCHANGED <<run, doc, text, parsed, filepath>>

NextDetect == can_handle_filepath

SpecDetect == InitDetect /\ [][NextDetect]_vars

\* ------------------------------------------------------------ properties
Spawned == {i \in DOMAIN tasks : tasks[i].st \notin {"unspawned", "skipped"}}
Completed == {i \in DOMAIN tasks : tasks[i].st = "done"}
Classified == {i \in DOMAIN tasks : tasks[i].st \in {"classified", "done"}}
Terminated == {i \in DOMAIN tasks : tasks[i].st \in {"done", "panicked"}}
WithStatus(S, status) == {i \in S : tasks[i].outcome.status = status}

\* The semaphore exists once the setup has passed its early returns.
SemaphoreBuilt == /\ pc # "start"
                  /\ result \notin {"Err_DirectoryNotFound", "Err_ManifestNotFound",
                                    "Err_ManifestParse", "Panic_ChannelCapacity"}

\* C1: in both flows the number of tasks that hold a worker permit (between
\* the acquisition and the task's completion) never exceeds max_workers.
C1_ConcurrencyBound == Cardinality(Holders) <= max_workers

\* C1 witness: the cap binds -- max_workers >= 1 tasks hold a permit while
\* another spawned task waits for one.
C1_Witness ==
    /\ max_workers >= 1
    /\ Cardinality(Holders) = max_workers
    /\ \E i \in DOMAIN tasks : tasks[i].st = "waiting"

\* C2: permits never leak: held and available permits always add up to
\* max_workers, so when every submitted task has terminated (whatever its
\* outcome) all max_workers permits are available again, and a task can wait
\* only while max_workers unfinished tasks hold the permits.
C2_PermitsNeverLeak ==
    SemaphoreBuilt =>
        /\ permits >= 0
        /\ permits + Cardinality(Holders) = max_workers
        /\ Spawned = Terminated => permits = max_workers
        /\ \A i \in DOMAIN tasks :
             tasks[i].st = "waiting" /\ permits = 0 =>
                 Cardinality(Spawned \ Terminated) > max_workers

\* C2 witness: more tasks than permits, all terminated, one of them on the
\* failure path, and every permit is back.
C2_Witness ==
    /\ max_workers >= 1
    /\ Cardinality(Spawned) > max_workers
    /\ Spawned = Terminated
    /\ WithStatus(Completed, "Errored") # {}
    /\ permits = max_workers

\* C3: in a verify run in which all tasks complete, every manifest entry is in
\* exactly one of the buckets Valid, Invalid, Missing, Errored, the counters
\* valid, invalid and missing hold the sizes of their buckets, and the four
\* bucket sizes add up to the number of manifest entries.
C3_ClassificationTotality ==
    (flow = "verify" /\ nspawned = NumEntries /\ Completed = DOMAIN tasks) =>
        /\ \A i \in DOMAIN tasks :
             tasks[i].outcome.status \in {"Valid", "Invalid", "Missing", "Errored"}
        /\ counters.valid = Cardinality(WithStatus(Completed, "Valid"))
        /\ counters.invalid = Cardinality(WithStatus(Completed, "Invalid"))
        /\ counters.missing = Cardinality(WithStatus(Completed, "Missing"))
        /\ counters.valid + counters.invalid + counters.missing
             + Cardinality(WithStatus(Completed, "Errored")) = NumEntries

\* C3 witness: a finished verify run over two entries that ended in two
\* different buckets, concurrently classified (two permits).
C3_Witness ==
    /\ flow = "verify"
    /\ pc = "done"
    /\ result \in {"Ok", "Exit1"}
    /\ NumEntries >= 2
    /\ max_workers >= 2
    /\ counters.invalid = 1
    /\ WithStatus(Completed, "Errored") # {}

\* C4: at the exit-status decision of verify the status is non-zero exactly
\* when the invalid counter is greater than 0; missing and errored entries do
\* not influence it.
C4_ExitStatusLaw ==
    (flow = "verify" /\ pc = "done" /\ result \in {"Ok", "Exit1"}) =>
        (result = "Exit1" <=> counters.invalid > 0)

\* C4 witness: a verify run with a missing and an errored entry and no
\* invalid one ends with status 0.
C4_Witness ==
    /\ flow = "verify"
    /\ result = "Ok"
    /\ counters.missing > 0
    /\ WithStatus(Completed, "Errored") # {}

\* C5: the classification of one verify entry: Missing, without an actual
\* checksum, when the path is no regular file; otherwise Errored when the
\* provider fails, Valid when the recomputed checksum equals the expected one
\* and Invalid, carrying the recomputed checksum, when it differs.  The missing
\* and invalid counters hold exactly the Missing and Invalid entries, so a
\* provider failure never counts as invalid.
C5_VerifyClassification ==
    flow = "verify" =>
        /\ \A i \in Classified :
             LET t == tasks[i] IN
             /\ t.file = NotFile =>
                  t.outcome.status = "Missing" /\ t.outcome.checksum = NoChecksum
             /\ t.file = IoFailure => t.outcome.status = "Errored"
             /\ t.file \in Contents =>
                  /\ t.outcome.checksum # NoChecksum
                  /\ t.outcome.checksum = manifest[i] => t.outcome.status = "Valid"
                  /\ t.outcome.checksum # manifest[i] => t.outcome.status = "Invalid"
        /\ counters.missing = Cardinality(WithStatus(Classified, "Missing"))
        /\ counters.invalid = Cardinality(WithStatus(Classified, "Invalid"))
        /\ \A i \in WithStatus(Classified, "Invalid") : tasks[i].file \in Contents

\* C5 witness: one entry whose provider failed and one missing entry, both
\* classified, and the invalid counter still 0.
C5_Witness ==
    /\ flow = "verify"
    /\ \E i, j \in Classified :
         /\ tasks[i].file = IoFailure
         /\ tasks[j].file = NotFile
    /\ counters.invalid = 0
    /\ counters.missing = 1

\* A file is unchanged for an entry when hashing it with the entry's own
\* algorithm and mode gives the expected checksum.
Unchanged(i) ==
    /\ tasks[i].file \in Contents
    /\ ChecksumOf(tasks[i].file, manifest[i].algorithm, manifest[i].mode) = manifest[i]

\* C6: verify recomputes every entry with the entry's own algorithm and mode:
\* the recomputed checksum carries them, and every entry whose file is
\* unchanged is Valid, whatever the algorithms and modes of the other entries.
C6_OwnAlgorithmAndMode ==
    flow = "verify" =>
        \A i \in Classified :
            /\ tasks[i].file \in Contents =>
                 /\ tasks[i].outcome.checksum.algorithm = manifest[i].algorithm
                 /\ tasks[i].outcome.checksum.mode = manifest[i].mode
            /\ Unchanged(i) => tasks[i].outcome.status = "Valid"

\* C6 witness: a manifest whose two entries differ in algorithm and in mode,
\* both files unchanged, both classified Valid.
C6_Witness ==
    /\ flow = "verify"
    /\ \E i, j \in Classified :
         /\ manifest[i].algorithm # manifest[j].algorithm
         /\ manifest[i].mode # manifest[j].mode
         /\ Unchanged(i) /\ Unchanged(j)
         /\ tasks[i].outcome.status = "Valid"
         /\ tasks[j].outcome.status = "Valid"

Returned == pc = "done" /\ result \in {"Ok", "Exit1"}

\* Messages that were enqueued before Shutdown and are still not consumed.
UnrenderedBeforeExit ==
    {j \in 1..Len(chan) :
        /\ chan[j].type # "Exit"
        /\ \E k \in 1..Len(chan) : j < k /\ chan[k].type = "Exit"}

\* C7: no reporter output is lost at shutdown: when the run has returned,
\* every message enqueued before Shutdown has been rendered, and nothing is
\* rendered after the return.
C7_NoOutputLost ==
    /\ [](Returned => UnrenderedBeforeExit = {})
    /\ [][Returned => rendered' = rendered]_vars

\* C8: the acknowledgement is signalled only once the consumer has consumed
\* Shutdown and stopped, and the orchestrator decides the exit status or
\* returns only after it has received the acknowledgement.
C8_TwoPhaseShutdown ==
    /\ (~disabled /\ ack \in {"sent", "received"}) => display_task = "finished"
    /\ (pc = "deciding" \/ Returned) => ack = "received"

\* The counter bucket that matches an outcome.
Bucket(c, status) ==
    CASE status = "Valid" -> c.valid
      [] status = "Invalid" -> c.invalid
      [] status = "Missing" -> c.missing
      [] status = "Computed" -> c.success
      [] OTHER -> c.error

\* Entries whose outcome was handed to the reporter.
Handed == {i \in Terminated : i < join_idx \/ (pc = "reporting" /\ pending.id = i)}

\* C9: when an outcome is handed to the reporter, the counter bucket matching
\* it has been incremented for it, for every kind of outcome and in both
\* flows, and no task is counted twice.
C9_CountThenReport ==
    /\ \A status \in {"Valid", "Invalid", "Missing", "Errored", "Computed"} :
         Bucket(counters, status) >= Cardinality(WithStatus(Handed, status))
    /\ counters.valid + counters.invalid + counters.missing + counters.success
         + counters.error <= Cardinality(Terminated \cup Classified)

\* The causes the claim lists; Err_ManifestPath (the canonicalize of the
\* manifest path, generate.rs:409) counts as a manifest resolution failure.
FatalCauses == {"Err_DirectoryNotFound", "Err_ManifestNotFound", "Err_ManifestParse",
                "Err_ManifestPath", "Err_ManifestWrite", "Err_TaskJoinFailure"}

\* C10: a run returns an error only for a directory or manifest resolution
\* failure, a manifest parse failure, a manifest write failure or a task join
\* failure; in every other run all entries are joined, counted and reported.
C10_OnlyFatalAborts ==
    (pc = "done" /\ result # "Panic_ChannelCapacity") =>
        \/ result \in FatalCauses
        \/ /\ result \in {"Ok", "Exit1"}
           /\ \A i \in Spawned : i < join_idx

\* The algorithm the claim names: the format's implied algorithm when it has
\* one, otherwise the requested algorithm, otherwise the default.
EffectiveAlgorithm ==
    IF ImpliedAlgorithm(format) # "none" THEN ImpliedAlgorithm(format)
    ELSE IF algorithm # "none" THEN algorithm
    ELSE DefaultAlgorithm

\* C11: in generate every file is hashed with the effective algorithm (implied
\* by the format, else requested, else the default), and once the setup has
\* passed a warning has been surfaced exactly when an algorithm was requested
\* that differs from the effective one; the warning does not end the run.
C11_EffectiveAlgorithm ==
    flow = "generate" =>
        /\ \A i \in DOMAIN tasks :
             tasks[i].outcome.status = "Computed" =>
                 tasks[i].outcome.checksum.algorithm = EffectiveAlgorithm
        /\ \A a \in artifacts : a.checksum.algorithm = EffectiveAlgorithm
        /\ SemaphoreBuilt =>
             (warnings # {} <=> (algorithm # "none" /\ algorithm # EffectiveAlgorithm))
        /\ ~SemaphoreBuilt => warnings = {}
        /\ warnings # {} => "log" \in warnings

\* C11 witness: SHA-512 requested with the B2SUM format; the run warned, went
\* on, hashed a file with BLAKE2b-512, wrote the manifest and returned Ok.
C11_Witness ==
    /\ format = "B2SUM"
    /\ algorithm = "SHA512"
    /\ warnings # {}
    /\ result = "Ok"
    /\ written # <<>>
    /\ \E a \in artifacts : a.checksum.algorithm = "BLAKE2B512"

\* The manifest entries that denote the manifest's own destination file.
SelfEntries(map) ==
    {a \in map : Resolve(dirpath \o a.key) = Resolve(manifest_filepath)}

\* C12: in generate, when the manifest's destination lies inside the scanned
\* tree, the glob entry that is the manifest file gets no task and no entry of
\* the manifest denotes it, however dirpath and output are spelled; no task is
\* submitted for a directory or a symlink either.
C12_ManifestExcluded ==
    flow = "generate" =>
        /\ \A i \in 1..nspawned :
             /\ i = manifest_entry => tasks[i].st = "skipped"
             /\ tasks[i].file \in {Directory, Symlink} => tasks[i].st = "skipped"
        /\ SelfEntries(artifacts) = {}
        /\ written # <<>> => SelfEntries(written[1]) = {}

\* C13: a generate run whose directory exists, in which checksum computations
\* failed (error counter > 0) and whose manifest was written, returns Ok.
C13_ErrorsNeverFail ==
    (flow = "generate" /\ pc = "done" /\ counters.error > 0 /\ written # <<>>) =>
        result = "Ok"

\* All entries use BLAKE2b-512 and one mode.
UniformB2(m) ==
    \E mode \in Modes :
        \A a \in m.artifacts :
            a.checksum.algorithm = "BLAKE2B512" /\ a.checksum.mode = mode

C15_FinalTally ==
    (Returned /\ ~disabled) =>
        \E k \in 1..Len(rendered) :
            /\ rendered[k].type = "Progress"
            /\ rendered[k].counts = Snapshot(counters)

\* The handle the join loop is awaiting (0: none).
Awaited ==
    IF flow = "generate" THEN NextHandle
    ELSE IF join_idx <= NumEntries THEN join_idx ELSE 0

\* C16: a task that has reached its Invalid or Errored outcome, and whose
\* message is due, does not have to wait for another file task to complete
\* before the message is enqueued.
C16_ReportedAsDiscovered ==
    \A j \in DOMAIN tasks :
        (/\ tasks[j].st = "done"
         /\ tasks[j].outcome.status \in {"Invalid", "Errored"}
         /\ ~disabled
         /\ j \notin Handed
         /\ pc = "joining") =>
            ~(/\ Awaited \notin {0, j}
              /\ tasks[Awaited].st \notin {"done", "panicked"})

\* Result and error messages that left the orchestrator.
Messages == rendered \o chan
MsgFor(i, type) ==
    \E k \in 1..Len(Messages) : Messages[k].type = type /\ Messages[k].id = i

\* C17: a task join failure ends the run at once with an error: the join loop
\* never gets past a panicked task, nothing is reported for the tasks joined
\* after it, generate has written no manifest, and verify reaches neither the
\* exit-status decision nor a status derived from the counters.
C17_JoinFailureFatal ==
    /\ \A i \in DOMAIN tasks : tasks[i].st = "panicked" => join_idx <= i
    /\ (written # <<>> \/ pc = "deciding" \/ Returned) =>
          \A i \in DOMAIN tasks : tasks[i].st # "panicked"
    /\ result = "Err_TaskJoinFailure" =>
          /\ pc = "done"
          /\ written = <<>>
          /\ pending = NoMsg
          /\ Awaited # 0 /\ tasks[Awaited].st = "panicked"
          /\ \A i \in DOMAIN tasks :
               i >= Awaited => ~MsgFor(i, "Result") /\ ~MsgFor(i, "Error")

\* C17 witness: the first of two tasks panicked while the second completed;
\* the run ended with the join failure and the second outcome stays unreported.
C17_Witness ==
    /\ result = "Err_TaskJoinFailure"
    /\ ~disabled
    /\ NumEntries >= 2
    /\ tasks[1].st = "panicked"
    /\ tasks[2].st = "done"
    /\ tasks[2].outcome.status = "Errored"

\* The entries of a manifest that stand for task i: keyed by a path that,
\* taken relative to the scanned directory, is the task's file.
EntriesOf(map, i) ==
    {a \in map : Resolve(dirpath \o a.key) = Resolve(EntryPath(i))}

\* C18: the manifest generate has written holds exactly one entry for every
\* task that ended Computed, keyed by the file's path relative to the scanned
\* directory and holding the task's checksum, no entry for any other task,
\* and as many entries as the success counter says.
C18_ManifestEntries ==
    (flow = "generate" /\ written # <<>>) =>
        LET entries == written[1] IN
        /\ \A i \in DOMAIN tasks :
             IF tasks[i].outcome.status = "Computed"
             THEN /\ Cardinality(EntriesOf(entries, i)) = 1
                  /\ \A a \in EntriesOf(entries, i) :
                       /\ ~IsAbsolute(a.key)
                       /\ a.checksum = tasks[i].outcome.checksum
             ELSE EntriesOf(entries, i) = {}
        /\ Cardinality(entries) = counters.success

IsProgress(m) == m.type = "Progress"

\* The snapshots the ticker has emitted, oldest first, with the one it is
\* sending.
Emitted ==
    SelectSeq(Messages, IsProgress)
        \o (IF progress_msg # NoMsg THEN <<progress_msg>> ELSE <<>>)

Tally(m) == m.counts[1] + m.counts[2]

\* C19: generate's ticker emits a snapshot only when success + error differs
\* from the aggregate of its last snapshot (0 at the start): no snapshot
\* carries the aggregate 0, no two consecutive snapshots carry the same
\* aggregate, each snapshot carries the counters read at its tick, and
\* last_progress is the aggregate of the latest snapshot.
C19_SnapshotOnChange ==
    flow = "generate" =>
        /\ \A k \in 1..Len(Emitted) :
             /\ Tally(Emitted[k]) # (IF k = 1 THEN 0 ELSE Tally(Emitted[k - 1]))
             /\ Tally(Emitted[k]) <= Aggregate(counters)
        /\ progress_task \in {"ticking", "sending"} =>
             last_progress = (IF Emitted = <<>> THEN 0 ELSE Tally(Emitted[Len(Emitted)]))
        /\ progress_task = "sending" => progress_msg # NoMsg

\* C19 witness: two snapshots were rendered, the first after one success,
\* the second after an error was added.
C19_Witness ==
    /\ flow = "generate"
    /\ \E k \in 1..Len(rendered) :
         /\ k < Len(rendered)
         /\ rendered[k].type = "Progress" /\ rendered[k].counts = <<1, 0>>
         /\ rendered[k + 1].type = "Progress" /\ rendered[k + 1].counts = <<1, 1>>
    /\ progress_task = "ticking"
    /\ last_progress = Aggregate(counters)

\* Tasks whose outcome report_checksum_result / report_error has taken up.
Counted ==
    {i \in DOMAIN tasks :
        /\ tasks[i].st = "done"
        /\ \/ i < join_idx
           \/ i = NextHandle /\ (pc = "reporting" \/ result = "Err_ReporterClosed")}

FinalSnapshotPassed == pc \in {"stopping", "exiting", "syncing", "deciding"} \/ Returned
TickerStopPassed == pc \in {"exiting", "syncing", "deciding"} \/ Returned
ShutdownSent == pc \in {"syncing", "deciding"} \/ Returned
TickerRuns == progress_task \in {"ticking", "sending"}
HasExit(q) == \E k \in 1..Len(q) : q[k].type = "Exit"

\* C22: the closing steps of verify come in a fixed order: the forced final
\* snapshot only after every entry's outcome was joined and reported, the
\* stop of the ticker after it, Shutdown after the ticker was stopped, and
\* the read of the invalid counter for the exit status only after the
\* acknowledgement was received.
C22_VerifyClosingOrder ==
    flow = "verify" =>
        /\ FinalSnapshotPassed =>
             /\ join_idx > NumEntries
             /\ pending = NoMsg
             /\ \A i \in DOMAIN tasks :
                  /\ tasks[i].st = "done"
                  /\ VerifyReports(tasks[i].outcome.status) =>
                        (MsgFor(i, "Result") \/ MsgFor(i, "Error"))
        /\ (FinalSnapshotPassed /\ ~disabled) =>
             \E k \in 1..Len(Messages) :
                 /\ Messages[k].type = "Progress"
                 /\ Messages[k].counts = Snapshot(counters)
        /\ TickerStopPassed => ~TickerRuns
        /\ progress_task = "aborted" => TickerStopPassed
        /\ (HasExit(chan) \/ display_task = "finished" \/ ack # "none") =>
             (ShutdownSent /\ ~TickerRuns)
        /\ (pc = "deciding" \/ Returned) => ack = "received"
        /\ ack = "received" => ShutdownSent

\* C22 witness: a verify run with ticker and reporter over two entries stands
\* at the exit-status decision: both outcomes and the final snapshot were
\* rendered, the ticker is aborted, the acknowledgement received.
C22_Witness ==
    /\ flow = "verify"
    /\ pc = "deciding"
    /\ NumEntries >= 2
    /\ verbosity >= 1
    /\ progress_task = "aborted"
    /\ ack = "received"
    /\ MsgFor(1, "Result") /\ MsgFor(2, "Error")
    /\ rendered[Len(rendered)].type = "Progress"
    /\ rendered[Len(rendered)].counts = Snapshot(counters)

\* C23: generate writes the manifest only after every submitted task has
\* reached its terminal outcome and was joined, and before Shutdown is sent;
\* what it writes is the artifacts map as the join loop completed it, and a
\* run that ends in the join loop (task join failure, reporter send
\* failure) has written no manifest.
C23_ManifestWrittenLast ==
    flow = "generate" =>
        /\ written # <<>> =>
             /\ nspawned = NumEntries
             /\ NextHandle = 0
             /\ \A i \in Spawned : tasks[i].st = "done"
             /\ written[1] = artifacts
        /\ (HasExit(chan) \/ ack # "none" \/ display_task = "finished") =>
             written # <<>>
        /\ result = "Err_TaskJoinFailure" => written = <<>>
        /\ (result = "Err_ReporterClosed" /\ NextHandle # 0) => written = <<>>

\* C23 witness: the reporter was gone when the second outcome was to be
\* sent; the first result is in the artifacts map, the run ended with the
\* send failure and no manifest was written.
C23_Witness ==
    /\ flow = "generate"
    /\ result = "Err_ReporterClosed"
    /\ NextHandle = 2
    /\ artifacts # {}
    /\ written = <<>>

\* The failures of the setup: the directory does not exist, no manifest
\* source is resolved (verify), the manifest does not parse (verify).
SetupFailures == {"Err_DirectoryNotFound", "Err_ManifestNotFound", "Err_ManifestParse"}

\* C24: a run that fails in its setup -- no directory, or in verify no
\* manifest source or a manifest that does not parse -- returns the error
\* before any task is spawned, any permit taken, any counter changed and
\* anything sent to the reporter.
C24_SetupFailsEarly ==
    result \in SetupFailures =>
        /\ pc = "done"
        /\ result = "Err_DirectoryNotFound" \/ flow = "verify"
        /\ nspawned = 0
        /\ \A i \in DOMAIN tasks : tasks[i] = NewTask
        /\ permits = 0 /\ Holders = {}
        /\ counters = ZeroCounters
        /\ chan = <<>> /\ rendered = <<>> /\ pending = NoMsg
        /\ display_task = "none" /\ progress_task = "none"
        /\ ack = "none"
        /\ written = <<>>

\* C24 witness: verify with reporter and ticker requested, two workers and
\* two entries, ended by a manifest that does not parse.
C24_Witness ==
    /\ flow = "verify"
    /\ result = "Err_ManifestParse"
    /\ ~disabled /\ show_progress
    /\ max_workers = 2
    /\ NumEntries = 2
    /\ pc = "done"

\* C25: in both flows the ticker is stopped before shutdown is signalled:
\* once Shutdown is in the channel or the acknowledgement is signalled the
\* ticker no longer runs, and no ProgressSnapshot stands behind the Shutdown
\* message in the reporter channel.
C25_TickerStoppedBeforeShutdown ==
    /\ (HasExit(chan) \/ ack # "none") => ~TickerRuns
    /\ \A j, k \in 1..Len(chan) :
         (j < k /\ chan[j].type = "Exit") => chan[k].type # "Progress"

Submitted(i) == i \in DOMAIN tasks /\ tasks[i].st = "waiting"
Terminal(i) == i \in DOMAIN tasks /\ tasks[i].st \in {"done", "panicked"}

\* Failures outside the claim's assumptions: a task that panics instead of
\* terminating, and the manifest file that cannot be resolved or written.
ExcusedFailures == {"Err_TaskJoinFailure", "Err_ManifestPath", "Err_ManifestWrite"}

\* C26: with max_workers >= 1, terminating checksum computations and a fair
\* scheduler, every submitted task eventually gets a permit and reaches a
\* terminal outcome, the orchestrator never stays blocked on the reporter
\* channel, and a run that has passed its setup eventually reaches Shutdown
\* and returns its status.
C26_NoDeadlock ==
    /\ \A i \in 1..MaxEntries : Submitted(i) ~> Terminal(i)
    /\ (pc = "reporting") ~> (pc # "reporting")
    /\ (pc = "spawning") ~> (Returned \/ result \in ExcusedFailures)

\* The part of C26 that is about waiting: no task waits forever for a permit,
\* the orchestrator waits forever neither for a handle nor for room in the
\* channel nor for the acknowledgement.
NoWaitForever ==
    /\ \A i \in 1..MaxEntries : Submitted(i) ~> Terminal(i)
    /\ (pc = "reporting") ~> (pc # "reporting")
    /\ <>(pc = "done")

\* C27: verify accepts max_workers = 0, and with it and a manifest of at
\* least one entry no task ever acquires a permit, no counter is ever
\* incremented, and the run never reaches the final snapshot, Shutdown or the
\* exit-status decision: once past its setup it neither returns nor fails.
C27_ZeroWorkersHang ==
    (flow = "verify" /\ max_workers = 0 /\ NumEntries >= 1) =>
        /\ permits = 0
        /\ \A i \in DOMAIN tasks : tasks[i].st \in {"unspawned", "waiting"}
        /\ counters = ZeroCounters
        /\ join_idx = 1
        /\ ~FinalSnapshotPassed
        /\ ~HasExit(chan) /\ ack = "none"
        /\ \A k \in 1..Len(Messages) : Messages[k].type = "Start"
        /\ result \in {"running"} \cup SetupFailures
        /\ pc \in {"spawning", "joining"} => result = "running"

\* C27 witness: verify with max_workers = 0 has passed its setup and spawned
\* a task per entry; the join loop awaits the first one, every task waits for
\* a permit, and no step of the orchestrator or of a task is possible.
C27_Witness ==
    /\ flow = "verify"
    /\ max_workers = 0
    /\ NumEntries >= 1
    /\ pc = "joining"
    /\ \A i \in DOMAIN tasks : tasks[i].st = "waiting"
    /\ result = "running"
    /\ ~ENABLED VerifyJoin
    /\ \A i \in DOMAIN tasks : ~ENABLED VerifyTaskAcquire(i)

\* The consumer of a generate run ended early: rendering RunStarted failed.
ConsumerFailed == flow = "generate" /\ display_task = "failed"

\* C28: once the consumer of a generate run has ended early on a rendering
\* failure, the orchestrator never waits on the channel: a send that is due
\* (ItemResult, ItemError, Shutdown) can always be made, it enqueues nothing
\* and ends the run with the send error.
C28_DeadConsumerAborts ==
    /\ []((ConsumerFailed /\ pc = "reporting") => ENABLED ReportSend)
    /\ []((ConsumerFailed /\ pc = "exiting") => ENABLED report_exit)
    /\ [][ConsumerFailed =>
            /\ Len(chan') <= Len(chan)
            /\ (pc \in {"reporting", "exiting"} /\ pc' # pc) =>
                   (pc' = "done" /\ result' = "Err_ReporterClosed")]_vars

\* C28 witness: the manifest did not exist, the consumer failed on
\* RunStarted, and the send of the first ItemResult ended the run.
C28_Witness ==
    /\ ConsumerFailed
    /\ ~manifest_exists
    /\ result = "Err_ReporterClosed"
    /\ NextHandle = 1
    /\ tasks[1].outcome.status = "Computed"
    /\ counters.success = 1
    /\ chan = <<>> /\ rendered = <<>>
====
